---------------------------- MODULE Spec2Model ----------------------------
(***************************************************************************)
(* Model of nokia.py, the "-u" unpacker of Nokia XS-240X-A configuration   *)
(* blobs: endianness sniffing, AES-CBC decryption with padding removal,    *)
(* header extraction, CRC-32 verification and the brute-force search over  *)
(* (offset, wbits) candidates for zlib.decompress.                         *)
(*                                                                         *)
(* Bytes are integers 0..255 and byte strings are sequences of them.       *)
(* 32-bit unsigned integers are pairs <<hi, lo>> of 16-bit halves, since   *)
(* TLC's integers are 32-bit signed.                                       *)
(***************************************************************************)
EXTENDS Integers, Sequences, FiniteSets, TLC

(***************************************************************************)
(* Python values                                                           *)
(***************************************************************************)

\* A Python name bound to None, or never assigned.
None == [some |-> FALSE, val |-> <<>>]

\* A Python name bound to the byte string v.
Some(v) == [some |-> TRUE, val |-> v]

\* Python truthiness of a bytes-or-None value: None and b'' are both falsy.
Truthy(x) == x.some /\ Len(x.val) > 0

Min(a, b) == IF a <= b THEN a ELSE b

Max(a, b) == IF a >= b THEN a ELSE b

\* s[a:b] for 0 <= a and 0 <= b: Python clamps both ends to len(s).
PySlice(s, a, b) ==
    LET e == Min(b, Len(s))
    IN  IF a >= e THEN <<>> ELSE SubSeq(s, a + 1, e)

\* s[a:]
PyFrom(s, a) == PySlice(s, a, Len(s))

\* s[:e] for any integer e: a negative e counts from the end, and e = 0
\* (which is what -0 is) gives the empty string.
PySliceTo(s, e) ==
    IF e < 0 THEN PySlice(s, 0, Max(Len(s) + e, 0)) ELSE PySlice(s, 0, e)

(***************************************************************************)
(* Bit operations                                                          *)
(***************************************************************************)

RECURSIVE XorBits(_, _, _)
\* a XOR b on n-bit non-negative integers.
XorBits(a, b, n) ==
    IF n = 0 THEN 0
    ELSE ((a + b) % 2) + 2 * XorBits(a \div 2, b \div 2, n - 1)

\* XOR of two nibbles, tabulated.
XorNib == [a \in 0..15 |-> [b \in 0..15 |-> XorBits(a, b, 4)]]

Xor8(a, b) == XorNib[a % 16][b % 16] + 16 * XorNib[a \div 16][b \div 16]

Xor16(a, b) == Xor8(a % 256, b % 256) + 256 * Xor8(a \div 256, b \div 256)

(***************************************************************************)
(* binascii.crc32 / zlib.crc32: reflected CRC-32, polynomial 0xEDB88320    *)
(***************************************************************************)

PolyHi == 60856  \* 0xEDB8

PolyLo == 33568  \* 0x8320

\* One bit of the reflected CRC: shift right, XOR the polynomial on carry.
CrcShift(c) ==
    LET hi == c[1] \div 2
        lo == (c[2] \div 2) + 32768 * (c[1] % 2)
    IN  IF c[2] % 2 = 1 THEN <<Xor16(hi, PolyHi), Xor16(lo, PolyLo)>>
        ELSE <<hi, lo>>

RECURSIVE CrcShiftN(_, _)
CrcShiftN(c, n) == IF n = 0 THEN c ELSE CrcShiftN(CrcShift(c), n - 1)

\* The byte table of the table-driven CRC.
CrcTable == [n \in 0..255 |-> CrcShiftN(<<0, n>>, 8)]

\* crc' = table[(crc XOR byte) AND 0xFF] XOR (crc >> 8)
CrcByte(c, byte) ==
    LET t  == CrcTable[Xor8(c[2] % 256, byte)]
        hi == c[1] \div 256
        lo == (c[2] \div 256) + 256 * (c[1] % 256)
    IN  <<Xor16(t[1], hi), Xor16(t[2], lo)>>

RECURSIVE CrcRun(_, _, _, _)
\* The CRC register c after the bytes s[lo..hi], taken in order.  The range
\* is halved, and the left half's register is computed before the right half
\* starts (the test of left[1]), so that the evaluation stays shallow.
CrcRun(c, s, lo, hi) ==
    IF lo > hi THEN c
    ELSE IF lo = hi THEN CrcByte(c, s[lo])
    ELSE LET mid  == (lo + hi) \div 2
             left == CrcRun(c, s, lo, mid)
         IN  IF left[1] >= 0 THEN CrcRun(left, s, mid + 1, hi) ELSE left

\* binascii.crc32(s) & 0xFFFFFFFF, as <<hi16, lo16>>.
CRC32(s) ==
    LET c == CrcRun(<<65535, 65535>>, s, 1, Len(s))
    IN  <<Xor16(c[1], 65535), Xor16(c[2], 65535)>>


RECURSIVE AdlerRun(_, _, _, _)
\* The Adler-32 sums <<b, a>> after the bytes s[lo..hi], from the sums ba.
AdlerRun(ba, s, lo, hi) ==
    IF lo > hi THEN ba
    ELSE IF lo = hi
    THEN LET a2 == (ba[2] + s[lo]) % 65521
         IN  <<(ba[1] + a2) % 65521, a2>>
    ELSE LET mid  == (lo + hi) \div 2
             left == AdlerRun(ba, s, lo, mid)
         IN  IF left[1] >= 0 THEN AdlerRun(left, s, mid + 1, hi) ELSE left

\* zlib.adler32(s), as <<hi16, lo16>> = <<b, a>>.
Adler32(s) == AdlerRun(<<0, 1>>, s, 1, Len(s))

(***************************************************************************)
(* u32 and checkendian                                                     *)
(***************************************************************************)

\* The two magic numbers of checkendian.
BigMagic == <<0, 18, 49, 35>>       \* b'\x00\x12\x31\x23'

LittleMagic == <<35, 49, 18, 0>>    \* b'\x23\x31\x12\x00'

\* checkendian with the two results swapped.
checkendianSwapped(cfg) ==
    IF PySlice(cfg, 0, 4) = BigMagic THEN "False"
    ELSE IF PySlice(cfg, 0, 4) = LittleMagic THEN "True"
    ELSE "None"

\* checkendian(cfg): "True" (big endian), "False" (little endian) or "None".
\* cfg[0:4] of a shorter string is the whole string, which equals neither magic.
checkendian(cfg) ==
    IF PySlice(cfg, 0, 4) = BigMagic THEN "True"
    ELSE IF PySlice(cfg, 0, 4) = LittleMagic THEN "False"
    ELSE "None"

\* u32 that ignores the global big_endian and always unpacks '>I'.
u32valueBigOnly(be, val) ==
    <<val[1] * 256 + val[2], val[3] * 256 + val[4]>>

\* struct.unpack('>I' if big_endian else '<I', val)[0] on a 4-byte val, as
\* <<hi16, lo16>>.  `be` is the truthiness of the global big_endian.
u32value(be, val) ==
    IF be THEN <<val[1] * 256 + val[2], val[3] * 256 + val[4]>>
    ELSE <<val[4] * 256 + val[3], val[2] * 256 + val[1]>>

\* struct.unpack raises struct.error unless val has exactly 4 bytes.
u32raises(val) == Len(val) # 4

\* u32(val): the value, or the exception.
u32(be, val) ==
    IF u32raises(val) THEN [raised |-> TRUE, val |-> <<0, 0>>]
    ELSE [raised |-> FALSE, val |-> u32value(be, val)]

(***************************************************************************)
(* RouterCrypto: AES-256-CBC with the fixed key and IV.                    *)
(*                                                                         *)
(* The AES block permutation itself is library code; it is modelled by a   *)
(* keyed byte-wise affine permutation of the block (invertible, not the    *)
(* identity).  The chaining, the IV, the block-length precondition and the *)
(* padding removal are those of the source.                                *)
(***************************************************************************)

BlockSize == 16

Key ==
    << 248,  74, 144, 177, 197, 199,  17, 159,  74,  36, 172, 136, 240, 198,  39,  80,
       185,  77,   5, 145, 111,   8, 217,   1,  79,  53,  12, 164, 248,  43,  69,  66 >>

IV == << 135, 208, 225,  89, 121,  54,  41,  72,  77,  89, 204, 163, 249,  84, 213,  71 >>

\* The key material mixed into byte j of a block.
RoundKey(j) == Xor8(Key[j], Key[j + BlockSize])

\* Decryption of one block under the key (stand-in for the AES inverse cipher).
BlockDecrypt(b) ==
    [j \in 1..BlockSize |-> (183 * ((b[j] + 256 - RoundKey(j)) % 256)) % 256]

\* Encryption of one block: the inverse of BlockDecrypt (7 * 183 = 1 mod 256).
BlockEncrypt(b) ==
    [j \in 1..BlockSize |-> (7 * b[j] + RoundKey(j)) % 256]

XorBlock(a, b) == [j \in 1..BlockSize |-> Xor8(a[j], b[j])]

Block(s, k) == SubSeq(s, (k - 1) * BlockSize + 1, k * BlockSize)

RECURSIVE CbcDecryptFrom(_, _, _)
\* CBC: P[k] = D(C[k]) XOR C[k-1], with C[0] = IV.
CbcDecryptFrom(data, k, prev) ==
    IF k * BlockSize > Len(data) THEN <<>>
    ELSE XorBlock(BlockDecrypt(Block(data, k)), prev)
             \o CbcDecryptFrom(data, k + 1, Block(data, k))

\* self.cipher.decrypt(data): raises ValueError unless len(data) is a multiple
\* of the block size; otherwise an output of the same length.
CipherDecryptRaises(data) == Len(data) % BlockSize # 0

CipherDecrypt(data) == CbcDecryptFrom(data, 1, IV)

RECURSIVE CbcEncryptFrom(_, _, _)
\* CBC: C[k] = E(P[k] XOR C[k-1]).  The inverse of CipherDecrypt.
CbcEncryptFrom(data, k, prev) ==
    IF k * BlockSize > Len(data) THEN <<>>
    ELSE LET c == BlockEncrypt(XorBlock(Block(data, k), prev))
         IN  c \o CbcEncryptFrom(data, k + 1, c)

CipherEncrypt(data) == CbcEncryptFrom(data, 1, IV)

\* The padding removal of RouterCrypto.decrypt: pad_size = output[-1];
\* return output[:-pad_size].  output is non-empty.
StripPadding(output) == PySliceTo(output, 0 - output[Len(output)])

\* RouterCrypto().decrypt(data): the bytes returned (raised = "NoError"), or
\* the exception raised: ValueError from the cipher on a length that is not a
\* multiple of the block size, IndexError from output[-1] on an empty output.
decrypt(data) ==
    IF CipherDecryptRaises(data) THEN [raised |-> "ValueError", val |-> <<>>]
    ELSE LET output == CipherDecrypt(data)
         IN  IF Len(output) = 0 THEN [raised |-> "IndexError", val |-> <<>>]
             ELSE [raised |-> "NoError", val |-> StripPadding(output)]

(***************************************************************************)
(* zlib.decompress(data, wbits)                                            *)
(*                                                                         *)
(* The Deflate layer is modelled on stored (uncompressed) blocks, which is *)
(* the subset of Deflate the inputs below are built from: a block header   *)
(* byte (BFINAL in bit 0, BTYPE in bits 1-2), LEN and its complement NLEN  *)
(* (little endian), then LEN literal bytes.  BTYPE 3 is an error in zlib;  *)
(* Huffman-coded blocks (BTYPE 1 and 2) are outside the modelled subset    *)
(* and never start a candidate slice of a modelled input.  A result is     *)
(* [ok, out]: ok = FALSE stands for zlib.error.  Bytes after the end of    *)
(* the stream are ignored, as zlib.decompress ignores them.                *)
(***************************************************************************)

ZError == [ok |-> FALSE, out |-> <<>>, next |-> 0]

RECURSIVE InflateFrom(_, _, _)
\* Raw Deflate from position i (1-based) of s, acc being the output so far.
\* next is the position after the final block.
InflateFrom(s, i, acc) ==
    IF i + 4 > Len(s) THEN ZError
    ELSE LET bfinal == s[i] % 2
             btype  == (s[i] \div 2) % 4
             len    == s[i + 1] + 256 * s[i + 2]
             nlen   == s[i + 3] + 256 * s[i + 4]
         IN  IF btype # 0 \/ len + nlen # 65535 \/ i + 4 + len > Len(s)
             THEN ZError
             ELSE LET out == acc \o SubSeq(s, i + 5, i + 4 + len)
                  IN  IF bfinal = 1
                      THEN [ok |-> TRUE, out |-> out, next |-> i + 5 + len]
                      ELSE InflateFrom(s, i + 5 + len, out)

\* A zlib-wrapped stream: CMF, FLG, Deflate data, Adler-32 (big endian).
InflateZlib(s) ==
    IF Len(s) < 2 THEN ZError
    ELSE IF \/ (s[1] * 256 + s[2]) % 31 # 0      \* incorrect header check
            \/ s[1] % 16 # 8                     \* unknown compression method
            \/ (s[1] \div 16) + 8 > 15           \* invalid window size
            \/ (s[2] \div 32) % 2 = 1            \* preset dictionary needed
         THEN ZError
         ELSE LET r == InflateFrom(s, 3, <<>>)
                  n == r.next
              IN  IF ~r.ok \/ n + 3 > Len(s) THEN ZError
                  ELSE IF <<s[n] * 256 + s[n + 1], s[n + 2] * 256 + s[n + 3]>>
                              # Adler32(r.out)
                       THEN ZError
                       ELSE r

GzipMagic == <<31, 139>>

\* A gzip-wrapped stream: 10-byte header, Deflate data, CRC-32 and ISIZE
\* (little endian).  Headers with optional fields (FLG bits 1..4) are outside
\* the modelled subset.
InflateGzip(s) ==
    IF Len(s) < 10 THEN ZError
    ELSE IF SubSeq(s, 1, 2) # GzipMagic \/ s[3] # 8 \/ s[4] > 1
         THEN ZError
         ELSE LET r == InflateFrom(s, 11, <<>>)
                  n == r.next
              IN  IF ~r.ok \/ n + 7 > Len(s) THEN ZError
                  ELSE IF \/ <<s[n + 3] * 256 + s[n + 2], s[n + 1] * 256 + s[n]>>
                                 # CRC32(r.out)
                          \/ <<s[n + 7] * 256 + s[n + 6], s[n + 5] * 256 + s[n + 4]>>
                                 # <<0, Len(r.out)>>
                       THEN ZError
                       ELSE r

\* zlib.decompress(data, wbits) for the wbits of wbits_to_try:
\*   -15..-8  raw Deflate (the window size plays no part in stored blocks),
\*   15       zlib wrapper,
\*   31       gzip wrapper (16 + 15),
\*   47       zlib or gzip, detected from the header (32 + 15).
zlib_decompress(data, wbits) ==
    LET r == IF wbits < 0 THEN InflateFrom(data, 1, <<>>)
             ELSE IF wbits = 15 THEN InflateZlib(data)
             ELSE IF wbits = 31 THEN InflateGzip(data)
             ELSE IF PySlice(data, 0, 2) = GzipMagic THEN InflateGzip(data)
             ELSE InflateZlib(data)
    IN  [ok |-> r.ok, out |-> r.out]

(***************************************************************************)
(* The unpacker (the "-u" branch of the script)                            *)
(***************************************************************************)

VARIABLES
    raw,            \* the bytes read from the cfg file (never changed)
    cfg_data,       \* cfg_data
    big_endian,     \* the global big_endian: "True", "False" or "None"
    encrypted_cfg,  \* the global encrypted_cfg
    output,         \* the raw cipher output inside RouterCrypto.decrypt
    decrypted,      \* decrypted (None while unbound)
    fw_magic,       \* fw_magic, <<hi16, lo16>>
    data_size,      \* data_size, <<hi16, lo16>>
    checksum,       \* checksum, <<hi16, lo16>>
    compressed,     \* compressed (None while unbound)
    xml_data,       \* xml_data (None while unbound or None)
    oi,             \* position of the outer loop in offsets
    wi,             \* position of the inner loop in wbits_to_try
    tried,          \* the (offset, wbits) pairs handed to zlib.decompress, in order
    success,        \* the pair printed in the SUCCESS message, <<>> if none
    out_file,       \* contents of the config-*.xml file written (None if none)
    repack,         \* the repack command printed, <<>> if none
    stages,         \* the stages entered so far, in order
    pc,             \* position in the script
    outcome         \* how the run ended, "running" until then

vars == << raw, cfg_data, big_endian, encrypted_cfg, output, decrypted, fw_magic,
           data_size, checksum, compressed, xml_data, oi, wi, tried, success,
           out_file, repack, stages, pc, outcome >>

HeaderLen == 20     \* 0x14

\* wbits_to_try = list(range(-15, -7)) + [15, 31, 47]
wbits_to_try == << -15, -14, -13, -12, -11, -10, -9, -8, 15, 31, 47 >>

\* offsets without its last entry.
offsetsShort == << 0, 4, 8, 12 >>

\* offsets = [0, 4, 8, 12, 16]
offsets == << 0, 4, 8, 12, 16 >>

\* `if big_endian:` and the conditional expressions on big_endian.
IsBig(b) == b = "True"

\* `except ValueError:` in place of `except Exception:`.
CaughtValueErrorOnly(exc) == exc = "ValueError"

\* `except Exception:` around decrypt and checkendian catches every exception.
Caught(exc) == exc \in {"ValueError", "IndexError"}

\* The comparison of line 110 with the CRC shifted down to its high half.
ChecksumMismatchHighHalf(data, sum) == CRC32(data)[1] # sum[1]

\* The comparison of line 110: (binascii.crc32(compressed) & 0xFFFFFFFF) != checksum
ChecksumMismatch(data, sum) == CRC32(data) # sum

\* cfg_data[0x14 : 0x14 + data_size].  Blobs are far shorter than 65536
\* bytes, so a size with a non-zero high half reaches past the end.
PayloadSlice(cfg, size) ==
    IF size[1] > 0 THEN PyFrom(cfg, HeaderLen)
    ELSE PySlice(cfg, HeaderLen, HeaderLen + size[2])

\* `if xml_data is not None:` in place of `if xml_data:`.
StopSearchOnAnyOutput(x) == x.some

\* `if xml_data:` after a decompression that returned: leave the loops.
StopSearch(x) == Truthy(x)

\* `if xml_data is None:` in place of `if not xml_data:`.
DecompressFailedNoneOnly(x) == ~x.some

\* `if not xml_data:` after the loops: the failure exit.
DecompressFailed(x) == ~Truthy(x)

\* The command-line flag of the repack hint:
\* ('-pb' if big_endian else '-pl') + ('e' if encrypted_cfg else '')
RepackMode(b, enc) ==
    IF IsBig(b) THEN (IF enc THEN "-pbe" ELSE "-pb")
    ELSE (IF enc THEN "-ple" ELSE "-pl")

(***************************************************************************)
(* The input blobs.  Init draws the file contents from these: well-formed  *)
(* blobs as the firmware writes them (magic, data_size, checksum, fw_magic *)
(* and payload; plain or encrypted; both byte orders), and damaged ones    *)
(* (wrong size or checksum, truncated, junk, bad padding).                 *)
(***************************************************************************)

MaxDocLen == 2      \* longest document, in bytes

MaxWrapWords == 4   \* widest proprietary wrapper before the stream, in words

MaxTrailer == 1     \* most bytes following the payload in the file

\* p32(val): struct.pack('>I' if big_endian else '<I', val) of <<hi16, lo16>>.
p32(be, v) ==
    IF be THEN <<v[1] \div 256, v[1] % 256, v[2] \div 256, v[2] % 256>>
    ELSE <<v[2] % 256, v[2] \div 256, v[1] % 256, v[1] \div 256>>

DocBytes == {60, 62}

Docs(n) == UNION {[1..k -> DocBytes] : k \in 0..n}

\* One final stored Deflate block holding d.
Stored(d) ==
    <<1, Len(d) % 256, Len(d) \div 256, 255 - (Len(d) % 256), 255 - (Len(d) \div 256)>>
        \o d

\* d as a raw, zlib-wrapped or gzip-wrapped stream; "none" is no stream at all.
Stream(f, d) ==
    IF f = "raw" THEN Stored(d)
    ELSE IF f = "zlib" THEN <<120, 1>> \o Stored(d) \o p32(TRUE, Adler32(d))
    ELSE IF f = "gzip"
    THEN <<31, 139, 8, 0, 0, 0, 0, 0, 0, 255>> \o Stored(d)
             \o p32(FALSE, CRC32(d)) \o p32(FALSE, <<0, Len(d)>>)
    ELSE <<255, 255, 255, 255, 255>>

Fill(n, b) == [i \in 1..n |-> b]

\* s followed by filler up to the next multiple of 4 bytes.
Pad4(s) == s \o Fill((4 - (Len(s) % 4)) % 4, 255)

\* A stream behind a proprietary wrapper of w words.
WrappedPayloads ==
    { Fill(4 * w, 255) \o Stream(f, d) :
        w \in 0..MaxWrapWords, f \in {"raw", "zlib", "gzip", "none"},
        d \in Docs(MaxDocLen) }

\* Two streams in one payload, the second on a word boundary.
DoublePayloads ==
    { Pad4(Stream(f1, d1)) \o Stream(f2, d2) :
        f1 \in {"raw", "zlib", "gzip"}, d1 \in Docs(1),
        f2 \in {"raw", "zlib", "gzip"}, d2 \in Docs(1) \ {<<>>} }

FwMagic == <<43981, 4660>>   \* 0xABCD1234

\* The file layout: magic, data_size, checksum, 4 unused bytes, fw_magic, rest.
Blob(be, size, sum, rest) ==
    (IF be THEN BigMagic ELSE LittleMagic)
        \o p32(be, size) \o p32(be, sum) \o <<0, 0, 0, 0>> \o p32(be, FwMagic) \o rest

\* A blob as the firmware writes it.
GoodBlob(be, payload) == Blob(be, <<0, Len(payload)>>, CRC32(payload), payload)

\* plain followed by 1..16 bytes of value b, encrypted.  With
\* b = 16 - len(plain) % 16 this is PKCS#7 padding.
EncryptPadded(plain, b) ==
    CipherEncrypt(plain \o Fill(BlockSize - (Len(plain) % BlockSize), b))

Pkcs7(plain) == BlockSize - (Len(plain) % BlockSize)

Encrypted(plain) == EncryptPadded(plain, Pkcs7(plain))

\* Well-formed plain blobs over every payload.
PlainInputs ==
    { GoodBlob(be, p) : be \in BOOLEAN, p \in WrappedPayloads \union DoublePayloads }

HeaderPayloads ==
    { Stream("zlib", <<60>>), Fill(16, 255) \o Stream("raw", <<60, 62>>) }

\* The declared sizes tried for a payload of n bytes.
DeclaredSizes(n) == { <<0, n - 1>>, <<0, n>>, <<0, n + 1>>, <<1, n>> }

\* Blobs whose declared size or checksum may be off, with bytes after the
\* payload.  The checksum is that of the bytes the size selects ("slice"),
\* that of the payload ("payload"), or wrong ("bad").
HeaderBlobs ==
    { Blob(be, size, sum, p \o Fill(t, 0)) :
        be \in BOOLEAN, p \in HeaderPayloads, t \in 0..MaxTrailer,
        size \in { <<0, 3>> }, sum \in { <<0, 0>> } }
    \union
    UNION { UNION { UNION { UNION {
        LET rest == p \o Fill(t, 0)
            cut  == IF size[1] > 0 THEN rest ELSE PySlice(rest, 0, size[2])
        IN  { Blob(be, size, CRC32(cut), rest),
              Blob(be, size, CRC32(p), rest),
              Blob(be, size, <<CRC32(cut)[1], (CRC32(cut)[2] + 1) % 65536>>, rest) }
        : size \in DeclaredSizes(Len(p)) }
        : t \in 0..MaxTrailer }
        : p \in HeaderPayloads }
        : be \in BOOLEAN }

HeaderInputs == HeaderBlobs \union { Encrypted(b) : b \in HeaderBlobs }

\* Blobs cut short, plain and encrypted.
TruncatedInputs ==
    LET cuts == UNION { { PySlice(GoodBlob(be, p), 0, n) :
                            n \in {0, 3, 4, 12, 19, 20, 21} }
                        : be \in BOOLEAN, p \in {Stream("zlib", <<60>>)} }
    IN  cuts \union { Encrypted(c) : c \in cuts }

PadBytes == {0, 1, 2, 15, 16, 17, 200}

\* Ciphertexts whose decryption ends in each of PadBytes, and junk.
PaddingInputs ==
    { EncryptPadded(GoodBlob(be, p), b) :
        be \in BOOLEAN, p \in HeaderPayloads, b \in PadBytes }
    \union { Fill(n, 0) : n \in {1, 15, 16, 17, 32} }
    \union { EncryptPadded(<<>>, b) : b \in PadBytes }

Inputs == PlainInputs \union HeaderInputs \union TruncatedInputs \union PaddingInputs

Unset32 == <<0, 0>>

\* The state once cfg_data has been read from the file.
InitWith(blob) ==
    /\ raw = blob
    /\ cfg_data = blob
    /\ big_endian = "True"
    /\ encrypted_cfg = FALSE
    /\ output = None
    /\ decrypted = None
    /\ fw_magic = Unset32
    /\ data_size = Unset32
    /\ checksum = Unset32
    /\ compressed = None
    /\ xml_data = None
    /\ oi = 1
    /\ wi = 1
    /\ tried = <<>>
    /\ success = <<>>
    /\ out_file = None
    /\ repack = <<>>
    /\ stages = <<>>
    /\ pc = "checkendian"
    /\ outcome = "running"

\* sys.exit(1), or the script ending, or an uncaught exception.
Exit(how) == pc' = "exit" /\ outcome' = how

\* Line 77: big_endian = checkendian(cfg_data), and the branch of line 78.
SniffRaw ==
    /\ pc = "checkendian"
    /\ big_endian' = checkendian(cfg_data)
    /\ stages' = Append(stages, "classify")
    /\ pc' = IF checkendian(cfg_data) = "None" THEN "decrypt" ELSE "header"
    /\ UNCHANGED << raw, cfg_data, encrypted_cfg, output, decrypted, fw_magic,
                    data_size, checksum, compressed, xml_data, oi, wi, tried,
                    success, out_file, repack, outcome >>

\* Lines 79-91: the try block around decrypt and checkendian, the exit when
\* big_endian is still None, and the switch to the decrypted blob.
DecryptAndSniff ==
    /\ pc = "decrypt"
    /\ LET d    == decrypt(cfg_data)
           okay == d.raised = "NoError"
           be   == IF okay THEN checkendian(d.val) ELSE big_endian
       IN  /\ output' = IF CipherDecryptRaises(cfg_data) THEN None
                        ELSE Some(CipherDecrypt(cfg_data))
           /\ decrypted' = IF okay THEN Some(d.val) ELSE decrypted
           /\ big_endian' = be
           /\ IF ~okay /\ ~Caught(d.raised)
              THEN /\ Exit("uncaught_exception")
                   /\ UNCHANGED << cfg_data, encrypted_cfg >>
              ELSE IF be = "None"
              THEN /\ Exit("unrecognized")
                   /\ UNCHANGED << cfg_data, encrypted_cfg >>
              ELSE /\ cfg_data' = d.val
                   /\ encrypted_cfg' = TRUE
                   /\ pc' = "header"
                   /\ UNCHANGED outcome
    /\ UNCHANGED << raw, fw_magic, data_size, checksum, compressed, xml_data,
                    oi, wi, tried, success, out_file, repack, stages >>

\* Lines 103-106: the header fields.  The first u32 that raises struct.error
\* ends the script with a traceback.
ExtractHeader ==
    /\ pc = "header"
    /\ stages' = Append(stages, "header")
    /\ LET be == IsBig(big_endian)
           fw == u32(be, PySlice(cfg_data, 16, 20))
           ds == u32(be, PySlice(cfg_data, 4, 8))
           cs == u32(be, PySlice(cfg_data, 8, 12))
       IN  IF fw.raised
           THEN /\ Exit("struct_error")
                /\ UNCHANGED << fw_magic, data_size, compressed, checksum >>
           ELSE IF ds.raised
           THEN /\ Exit("struct_error")
                /\ fw_magic' = fw.val
                /\ UNCHANGED << data_size, compressed, checksum >>
           ELSE IF cs.raised
           THEN /\ Exit("struct_error")
                /\ fw_magic' = fw.val
                /\ data_size' = ds.val
                /\ compressed' = Some(PayloadSlice(cfg_data, ds.val))
                /\ UNCHANGED checksum
           ELSE /\ fw_magic' = fw.val
                /\ data_size' = ds.val
                /\ compressed' = Some(PayloadSlice(cfg_data, ds.val))
                /\ checksum' = cs.val
                /\ pc' = "crc"
                /\ UNCHANGED outcome
    /\ UNCHANGED << raw, cfg_data, big_endian, encrypted_cfg, output, decrypted,
                    xml_data, oi, wi, tried, success, out_file, repack >>

\* Lines 110-117: the checksum comparison, its exit, and xml_data = None.
VerifyChecksum ==
    /\ pc = "crc"
    /\ stages' = Append(stages, "crc")
    /\ IF ChecksumMismatch(compressed.val, checksum)
       THEN Exit("crc_failed")
       ELSE pc' = "search" /\ UNCHANGED outcome
    /\ UNCHANGED << raw, cfg_data, big_endian, encrypted_cfg, output, decrypted,
                    fw_magic, data_size, checksum, compressed, xml_data, oi, wi,
                    tried, success, out_file, repack >>

\* Lines 125-138: one pass through the body of the inner loop, with the loop
\* control that follows it (the two breaks, the next wbits, the next offset).
TryCandidate ==
    /\ pc = "search"
    /\ LET offset == offsets[oi]
           wbits  == wbits_to_try[wi]
           r      == zlib_decompress(PyFrom(compressed.val, offset), wbits)
           xml    == IF r.ok THEN Some(r.out) ELSE xml_data
           found  == r.ok /\ StopSearch(xml)
       IN  /\ tried' = Append(tried, <<offset, wbits>>)
           /\ xml_data' = xml
           /\ success' = IF found THEN <<offset, wbits>> ELSE success
           /\ IF found
              THEN pc' = "finish" /\ UNCHANGED << oi, wi >>
              ELSE IF wi < Len(wbits_to_try)
              THEN wi' = wi + 1 /\ UNCHANGED << oi, pc >>
              ELSE IF StopSearch(xml)
              THEN pc' = "finish" /\ UNCHANGED << oi, wi >>
              ELSE IF oi < Len(offsets)
              THEN oi' = oi + 1 /\ wi' = 1 /\ UNCHANGED pc
              ELSE pc' = "finish" /\ UNCHANGED << oi, wi >>
    /\ stages' = IF tried = <<>> THEN Append(stages, "search") ELSE stages
    /\ UNCHANGED << raw, cfg_data, big_endian, encrypted_cfg, output, decrypted,
                    fw_magic, data_size, checksum, compressed, out_file, repack,
                    outcome >>

\* Lines 141-154: the failure exit, or the xml file and the repack hint.
Finish ==
    /\ pc = "finish"
    /\ IF DecompressFailed(xml_data)
       THEN /\ Exit("decompress_failed")
            /\ UNCHANGED << out_file, repack, stages >>
       ELSE /\ stages' = Append(stages, "output")
            /\ out_file' = Some(xml_data.val)
            /\ repack' = <<RepackMode(big_endian, encrypted_cfg), fw_magic>>
            /\ Exit("unpacked")
    /\ UNCHANGED << raw, cfg_data, big_endian, encrypted_cfg, output, decrypted,
                    fw_magic, data_size, checksum, compressed, xml_data, oi, wi,
                    tried, success >>

Next ==
    \/ SniffRaw
    \/ DecryptAndSniff
    \/ ExtractHeader
    \/ VerifyChecksum
    \/ TryCandidate
    \/ Finish

Init == \E blob \in Inputs : InitWith(blob)

Spec == Init /\ [][Next]_vars

(***************************************************************************)
(* Properties                                                              *)
(***************************************************************************)

\* Stage st has been entered.
Ran(st) == \E i \in DOMAIN stages : stages[i] = st

AllStages == << "classify", "header", "crc", "search", "output" >>

IsPrefix(s, t) == Len(s) <= Len(t) /\ \A i \in DOMAIN s : s[i] = t[i]

\* The search order the specification documents: offsets 0, 4, 8, 12, 16 in
\* the outer loop, parameters -15..-8, 15, 31, 47 in the inner loop.
DocumentedOffsets == << 0, 4, 8, 12, 16 >>

DocumentedParams == << -15, -14, -13, -12, -11, -10, -9, -8, 15, 31, 47 >>

DocumentedPairs ==
    [k \in 1..(Len(DocumentedOffsets) * Len(DocumentedParams)) |->
        << DocumentedOffsets[((k - 1) \div Len(DocumentedParams)) + 1],
           DocumentedParams[((k - 1) % Len(DocumentedParams)) + 1] >>]

\* What zlib gives for the k-th documented pair on the current payload.
PairResult(k) ==
    zlib_decompress(PyFrom(compressed.val, DocumentedPairs[k][1]),
                    DocumentedPairs[k][2])

\* The k-th documented pair decompresses to non-empty output.
PairGood(k) == PairResult(k).ok /\ Len(PairResult(k).out) > 0

GoodPairs == { k \in DOMAIN DocumentedPairs : PairGood(k) }

FirstGood == CHOOSE k \in GoodPairs : \A j \in GoodPairs : k <= j

SearchOver == Ran("search") /\ pc \in {"finish", "exit"}

\* C1 (checksum gate): once the checksum stage has run, a CRC-32 of the
\* payload that differs from the header checksum means the run has ended in
\* the checksum failure with no candidate tried, nothing decompressed and no
\* document written; and a candidate is tried, or a document written, only
\* after the comparison has succeeded.
ChecksumGate ==
    /\ (Ran("crc") /\ CRC32(compressed.val) # checksum) =>
           /\ pc = "exit" /\ outcome = "crc_failed"
           /\ tried = <<>> /\ xml_data = None /\ out_file = None
    /\ (tried # <<>> \/ xml_data.some \/ out_file.some) =>
           /\ Ran("crc")
           /\ CRC32(compressed.val) = checksum

\* A run that passed classification and ended in the checksum failure.
ChecksumGateWitness ==
    /\ pc = "exit" /\ outcome = "crc_failed"
    /\ encrypted_cfg /\ Len(compressed.val) > 0 /\ tried = <<>>

\* C2 (decompression determinism): the pairs are tried in the documented
\* order; while the search runs no pair tried so far has succeeded; and when
\* it is over, the document and the reported pair are those of the first
\* documented pair that decompresses to non-empty output, that pair being
\* the last one tried, or there is no document if no pair does.
SearchDeterminism ==
    /\ IsPrefix(tried, DocumentedPairs)
    /\ pc = "search" => (success = <<>> /\ ~Truthy(xml_data))
    /\ SearchOver =>
           IF GoodPairs # {}
           THEN /\ success = DocumentedPairs[FirstGood]
                /\ xml_data = Some(PairResult(FirstGood).out)
                /\ Len(tried) = FirstGood
                /\ pc = "exit" => out_file = Some(PairResult(FirstGood).out)
           ELSE /\ success = <<>>
                /\ ~Truthy(xml_data)
                /\ out_file = None

\* A finished search on a payload that several pairs decompress, one of
\* them after pairs that returned empty output.
SearchDeterminismWitness ==
    /\ pc = "exit" /\ outcome = "unpacked"
    /\ Cardinality(GoodPairs) > 1
    /\ \E k \in 1..(FirstGood - 1) : PairResult(k).ok

\* C3 (plaintext classification): a file starting with either magic is used
\* as it is: cfg_data stays the file's bytes, big_endian is True for
\* 00 12 31 23 and False for 23 31 12 00, encrypted_cfg stays False and the
\* cipher is never run.
PlaintextClassification ==
    LET m == PySlice(raw, 0, 4)
    IN  (pc # "checkendian" /\ m \in {<<0, 18, 49, 35>>, <<35, 49, 18, 0>>}) =>
            /\ cfg_data = raw
            /\ big_endian = IF m = <<0, 18, 49, 35>> THEN "True" ELSE "False"
            /\ encrypted_cfg = FALSE
            /\ pc # "decrypt"
            /\ output = None /\ decrypted = None

\* A little-endian plaintext file, classified and unpacked.
PlaintextClassificationWitness ==
    /\ PySlice(raw, 0, 4) = <<35, 49, 18, 0>>
    /\ pc = "exit" /\ outcome = "unpacked"
    /\ big_endian = "False" /\ ~encrypted_cfg

\* C4 (unrecognized blobs fail cleanly): for a file starting with neither
\* magic, once the decryption attempt is over, if the cipher raised or the
\* decrypted bytes start with neither magic, the run has ended as
\* unrecognized: no uncaught exception, no header, checksum, decompression
\* or output step.
UnrecognizedFailsCleanly ==
    (/\ pc \notin {"checkendian", "decrypt"}
     /\ checkendian(raw) = "None"
     /\ \/ decrypt(raw).raised # "NoError"
        \/ PySlice(decrypt(raw).val, 0, 4) \notin {<<0, 18, 49, 35>>, <<35, 49, 18, 0>>})
    =>  /\ pc = "exit" /\ outcome = "unrecognized"
        /\ stages = <<"classify">>
        /\ cfg_data = raw /\ ~encrypted_cfg
        /\ compressed = None /\ tried = <<>> /\ xml_data = None
        /\ out_file = None /\ repack = <<>>

\* An empty file: the cipher returns no bytes and output[-1] raises.
UnrecognizedFailsCleanlyWitness ==
    /\ pc = "exit" /\ outcome = "unrecognized"
    /\ raw = <<>>

\* The 32-bit integer at byte offset a of s, in the byte order of the magic
\* that s starts with.
FieldAt(s, a) ==
    IF PySlice(s, 0, 4) = <<35, 49, 18, 0>>
    THEN << s[a + 4] * 256 + s[a + 3], s[a + 2] * 256 + s[a + 1] >>
    ELSE << s[a + 1] * 256 + s[a + 2], s[a + 3] * 256 + s[a + 4] >>

\* C5 (encrypted classification): for a file starting with neither magic
\* whose decryption succeeds and starts with a magic, every later stage works
\* on the decrypted bytes: cfg_data is the decrypted output, encrypted_cfg is
\* True, big_endian follows the decrypted magic, and the header integers and
\* the payload are read from the decrypted bytes in that byte order.
EncryptedClassification ==
    (/\ pc \notin {"checkendian", "decrypt"}
     /\ checkendian(raw) = "None"
     /\ decrypt(raw).raised = "NoError"
     /\ PySlice(decrypt(raw).val, 0, 4) \in {<<0, 18, 49, 35>>, <<35, 49, 18, 0>>})
    =>  LET d == decrypt(raw).val
        IN  /\ cfg_data = d
            /\ encrypted_cfg = TRUE
            /\ big_endian = IF PySlice(d, 0, 4) = <<35, 49, 18, 0>> THEN "False"
                            ELSE "True"
            /\ Ran("crc") =>
                   /\ fw_magic = FieldAt(d, 16)
                   /\ data_size = FieldAt(d, 4)
                   /\ checksum = FieldAt(d, 8)
                   /\ compressed.some
                   /\ IsPrefix(compressed.val, PyFrom(d, 20))
                   /\ Len(compressed.val) =
                          IF data_size[1] > 0 THEN Len(d) - 20
                          ELSE Min(data_size[2], Len(d) - 20)

\* An encrypted little-endian file, decrypted and unpacked.
EncryptedClassificationWitness ==
    /\ pc = "exit" /\ outcome = "unpacked"
    /\ encrypted_cfg /\ big_endian = "False"
    /\ cfg_data # raw
    /\ repack = << "-ple", fw_magic >>

\* C6 (all-or-nothing output): the stages are entered in the order classify,
\* header, crc, search, output; a document and a repack hint exist only when
\* all of them were entered and the run ended as unpacked, the document
\* being the non-empty decompressed data; and a run that failed has stopped,
\* entered no stage after the one that failed, and written nothing.
AllOrNothing ==
    /\ IsPrefix(stages, AllStages)
    /\ (out_file.some \/ repack # <<>>) =>
           /\ stages = AllStages
           /\ pc = "exit" /\ outcome = "unpacked"
           /\ Truthy(xml_data) /\ out_file = xml_data
           /\ repack # <<>>
    /\ outcome = "unpacked" => out_file.some
    /\ outcome \notin {"running", "unpacked"} =>
           /\ pc = "exit" /\ out_file = None /\ repack = <<>>
    /\ outcome \in {"unrecognized", "uncaught_exception"} =>
           /\ stages = <<"classify">>
           /\ compressed = None /\ tried = <<>>
    /\ outcome = "struct_error" =>
           /\ stages = <<"classify", "header">>
           /\ tried = <<>> /\ xml_data = None
    /\ outcome = "crc_failed" =>
           /\ stages = <<"classify", "header", "crc">>
           /\ tried = <<>> /\ xml_data = None
    /\ outcome = "decompress_failed" =>
           stages = <<"classify", "header", "crc", "search">>

\* A search that ended with empty output only: nothing is written.
AllOrNothingWitness ==
    /\ pc = "exit" /\ outcome = "decompress_failed"
    /\ xml_data = Some(<<>>)
    /\ out_file = None

\* C7 (payload bound check), as claimed: when 0x14 + data_size exceeds the
\* length of the blob the checksum stage is never entered, so that whenever
\* it is entered the payload has exactly data_size bytes.
PayloadBoundCheck ==
    Ran("crc") => data_size = << 0, Len(compressed.val) >>

\* C8 (truncated header), as claimed: reading the header fields of a blob
\* that starts with a magic but is shorter than 0x14 bytes never ends the
\* run in an uncaught exception.
TruncatedHeaderTyped ==
    (Ran("header") /\ Len(cfg_data) < HeaderLen) => outcome # "struct_error"

\* C9 (search exhaustion and termination): at most 5 x 11 pairs are tried,
\* each a documented pair and none twice; a running search always has a pair
\* left to try; and when the search is over on a payload that no pair
\* decompresses to non-empty output, every pair has been tried exactly once,
\* nothing is written and the run ends in the decompression failure.
SearchExhaustion ==
    /\ Len(tried) <= Len(DocumentedPairs)
    /\ Cardinality({ tried[i] : i \in DOMAIN tried }) = Len(tried)
    /\ \A i \in DOMAIN tried : \E k \in DOMAIN DocumentedPairs : tried[i] = DocumentedPairs[k]
    /\ pc = "search" => Len(tried) < Len(DocumentedPairs)
    /\ (SearchOver /\ GoodPairs = {}) =>
           /\ Len(tried) = Len(DocumentedPairs)
           /\ { tried[i] : i \in DOMAIN tried }
                  = { DocumentedPairs[k] : k \in DOMAIN DocumentedPairs }
           /\ out_file = None
           /\ pc = "exit" => outcome = "decompress_failed"

\* An exhausted search: all 55 pairs tried, run ended in the failure.
SearchExhaustionWitness ==
    /\ pc = "exit" /\ outcome = "decompress_failed"
    /\ Len(tried) = Len(DocumentedPairs)
    /\ xml_data = None

\* C10 (padding removal), as claimed: when the raw cipher output is
\* non-empty and its last byte n is at most its length, decrypt returns the
\* output without its last n bytes, n = 0 included.
PaddingRemoval ==
    (/\ output.some
     /\ Len(output.val) > 0
     /\ output.val[Len(output.val)] <= Len(output.val))
    =>  /\ decrypted.some
        /\ decrypted.val =
               SubSeq(output.val, 1, Len(output.val) - output.val[Len(output.val)])

=============================================================================
